---- MODULE Spec2Model ----
(***************************************************************************)
(* Model of src/redirect_checker.py: the RedirectChecker class (crawler,   *)
(* tour-link extraction, redirect resolution, classification, reporting)   *)
(* and its two drivers run_single_mode and run_batch_mode.                 *)
(*                                                                         *)
(* Strings are modelled at token level.  A URL or href string is a record  *)
(*   [kind, host, segs, slash, query, frag]                                *)
(* kind "abs" is scheme://host/seg1/.../segn[/][?k=v&...][#frag], "rel" a  *)
(* relative path reference, "hash" a '#...' href and "js" a 'javascript:'  *)
(* href.  Two records are equal exactly when the strings are equal.        *)
(***************************************************************************)
EXTENDS Integers, Sequences, FiniteSets, TLC

\* ------------------------------------------------------------------ bounds
\* largest page budget (max_pages) a run is started with
MaxPagesBound == 3
\* longest path (in segments) of a final URL handed to the classifier
MaxSegs == 3
\* number of rows of the batch input sheet
MaxRows == 3

\* ------------------------------------------------------- program constants
MIN_PAGE_SIZE == 50000
VerySmall == 20000

\* ------------------------------------------------------------ token strings
\* str.lower() on the tokens of the model that carry upper-case letters
Lower(t) ==
    CASE t = "All-Assets-Share" -> "all-assets-share"
      [] t = "Asset" -> "asset"
      [] t = "CAPTCHA" -> "captcha"
      [] t = "<MAIN" -> "<main"
      [] t = "TrueTour.app" -> "truetour.app"
      [] OTHER -> t

\* `needle in tok` for the tokens of the model: equality, or a listed proper
\* substring
Contains(tok, needle) ==
    \/ tok = needle
    \/ <<tok, needle>> \in { <<"robots", "robot">>,
                             <<"all-assets-shared", "all-assets-share">>,
                             <<"/all-assets-share", "all-assets-share">>,
                             <<"my.visitingmedia.com", "visitingmedia.com">> }

Range(s) == { s[i] : i \in DOMAIN s }

Abs(h, p, sl) ==
    [kind |-> "abs", host |-> h, segs |-> p, slash |-> sl, query |-> <<>>, frag |-> ""]
AbsQ(h, p, q, f) ==
    [kind |-> "abs", host |-> h, segs |-> p, slash |-> FALSE, query |-> q, frag |-> f]
Rel(p, sl) ==
    [kind |-> "rel", host |-> "", segs |-> p, slash |-> sl, query |-> <<>>, frag |-> ""]
Hash(f) ==
    [kind |-> "hash", host |-> "", segs |-> <<>>, slash |-> FALSE, query |-> <<>>, frag |-> f]
Js ==
    [kind |-> "js", host |-> "", segs |-> <<>>, slash |-> FALSE, query |-> <<>>, frag |-> ""]
\* the empty string
Empty ==
    [kind |-> "rel", host |-> "", segs |-> <<>>, slash |-> FALSE, query |-> <<>>, frag |-> ""]

\* ---------------------------------------------------------------- classifier
\* parse_qs(parsed.query): the keys that carry a non-blank value (blank values
\* are dropped, keys are case-sensitive)
parse_qs(q) == { q[i][1] : i \in { j \in DOMAIN q : q[j][2] # "" } }

\* '/all-assets-share' in url_lower: a path segment that starts with the
\* phrase, or the phrase with its slash inside a query value or the fragment
HasAllAssetsShare(url) ==
    \/ \E i \in DOMAIN url.segs : Contains(Lower(url.segs[i]), "all-assets-share")
    \/ \E i \in DOMAIN url.query : Contains(Lower(url.query[i][2]), "/all-assets-share")
    \/ Contains(Lower(url.frag), "/all-assets-share")

\* a plausible slip: the asset parameter is not looked at
Mut_categorize_noparam(url) ==
    IF HasAllAssetsShare(url) THEN "BAD REDIRECT" ELSE "GOOD"

_categorize_redirect(url) ==
    IF HasAllAssetsShare(url) /\ "asset" \notin parse_qs(url.query)
    THEN "BAD REDIRECT"
    ELSE "GOOD"

\* ------------------------------------------------------- bot-block detection
bot_indicators == {"captcha", "please verify", "access denied", "blocked", "robot", "automated"}
content_markers == {"<main", "<article", "class=\"content\""}

\* html_content is [size, phrases]: its length and the phrases it contains
InHtmlLower(html, needle) == \E p \in html.phrases : Contains(Lower(p), needle)

\* the value _is_page_blocked returns
IsBlockedValue(html) ==
    /\ html.size < MIN_PAGE_SIZE
    /\ LET is_blocked0 == \E ind \in bot_indicators : InHtmlLower(html, ind)
           missing_content == /\ \A m \in content_markers : ~InHtmlLower(html, m)
                              /\ html.size < VerySmall
           is_blocked == IF ~is_blocked0 THEN missing_content ELSE is_blocked0
       IN  is_blocked \/ html.size < VerySmall

\* ------------------------------------------------------------- URL handling
\* urlparse(url).netloc
Netloc(url) == IF url.kind = "abs" THEN url.host ELSE ""

\* files whose name ends in '.html'
HtmlDocs == {"index.html"}

\* _extract_crawl_path: the path prefix, always ending in '/', held as the
\* sequence of its directory segments
_extract_crawl_path(url) ==
    LET n == Len(url.segs) IN
    IF n > 0 /\ ~url.slash /\ url.segs[n] \in HtmlDocs
    THEN SubSeq(url.segs, 1, n - 1)
    ELSE url.segs

\* urlparse(url).path.startswith(crawl_path), crawl_path being "/c1/../ck/"
PathStartsWith(url, cpath) ==
    LET n == Len(url.segs)
        k == Len(cpath)
    IN  /\ url.kind = "abs"
        /\ n >= k
        /\ SubSeq(url.segs, 1, k) = cpath
        /\ (n > k \/ url.slash)

\* urljoin(base, href), base an absolute URL
urljoin(base, href) ==
    CASE href.kind = "abs" -> href
      [] href.kind = "js" -> href
      [] href.kind = "hash" -> [base EXCEPT !.frag = href.frag]
      [] OTHER ->
           IF href.segs = <<>> /\ ~href.slash
           THEN [base EXCEPT !.frag = href.frag]
           ELSE LET n == Len(base.segs)
                    dir == IF base.slash \/ n = 0 THEN base.segs
                           ELSE SubSeq(base.segs, 1, n - 1)
                IN  [kind |-> "abs", host |-> base.host, segs |-> dir \o href.segs,
                     slash |-> href.slash, query |-> <<>>, frag |-> href.frag]

\* s.split('#')[0]
StripFragment(url) == [url EXCEPT !.frag = ""]

\* _is_tour_domain: 'visitingmedia.com' in url or 'truetour.app' in url
_is_tour_domain(url) ==
    LET toks == {url.host, url.frag} \cup Range(url.segs)
                  \cup { url.query[i][2] : i \in DOMAIN url.query }
    IN  \E t \in toks : Contains(t, "visitingmedia.com") \/ Contains(t, "truetour.app")

\* ------------------------------------------------------------ tour extraction
\* A parsed page is [iframes, data_links, anchors, buttons]: the src of every
\* iframe, the data-link of every element that has one, every <a href> in
\* document order as [href, tour_text, in_container] (tour_text is
\* _has_tour_text of the anchor, in_container whether it lies inside a
\* tour-class container), and the number of <button> elements whose text is a
\* tour phrase (they have no href, src or data-link).

\* lines 294-311: the iframe and data-link loops
RECURSIVE ScanAttr(_, _, _)
ScanAttr(vals, source, acc) ==
    IF vals = <<>> THEN acc
    ELSE LET v == Head(vals)
             hit == _is_tour_domain(v) /\ v \notin acc.checked
         IN  ScanAttr(Tail(vals), source,
                 IF hit THEN [checked |-> acc.checked \cup {v},
                              out |-> Append(acc.out, [url |-> v, source |-> source])]
                 ELSE acc)

\* lines 314-339: the anchor loop
RECURSIVE ScanAnchors(_, _, _)
ScanAnchors(anchors, page_url, acc) ==
    IF anchors = <<>> THEN acc
    ELSE LET a == Head(anchors)
             raw == a.href
             skip == raw = Empty \/ raw.kind = "hash" \/ raw.kind = "js"
             href == IF raw.kind # "abs" THEN urljoin(page_url, raw) ELSE raw
             src == IF _is_tour_domain(href) THEN "anchor"
                    ELSE IF a.tour_text THEN "tour-text" ELSE "none"
             hit == ~skip /\ href \notin acc.checked /\ src # "none"
         IN  ScanAnchors(Tail(anchors), page_url,
                 IF hit THEN [checked |-> acc.checked \cup {href},
                              out |-> Append(acc.out, [url |-> href, source |-> src])]
                 ELSE acc)

\* lines 342-351: links inside tour-class containers, by their raw href
RECURSIVE ScanContainers(_, _)
ScanContainers(anchors, acc) ==
    IF anchors = <<>> THEN acc
    ELSE LET a == Head(anchors)
             hit == a.in_container /\ a.href # Empty /\ a.href \notin acc.checked
         IN  ScanContainers(Tail(anchors),
                 IF hit THEN [checked |-> acc.checked \cup {a.href},
                              out |-> Append(acc.out, [url |-> a.href, source |-> "tour-class"])]
                 ELSE acc)

\* _check_tour_links: the calls of _check_redirect it makes, in order
TourCandidates(page, page_url) ==
    LET a0 == [checked |-> {}, out |-> <<>>]
        a1 == ScanAttr(page.iframes, "iframe", a0)
        a2 == ScanAttr(page.data_links, "data-link", a1)
        a3 == ScanAnchors(page.anchors, page_url, a2)
        a4 == ScanContainers(page.anchors, a3)
    IN  a4.out

\* ------------------------------------------------------------------ the web
P0 == Abs("example.com", <<"austin">>, TRUE)
P1 == Abs("example.com", <<"austin", "amenities">>, FALSE)
P2 == Abs("example.com", <<"austin", "rooms">>, FALSE)
D0 == Abs("example.com", <<"dallas">>, TRUE)
\* other spellings of the address of P0's document
P0NoSlash == Abs("example.com", <<"austin">>, FALSE)
P0Index == Abs("example.com", <<"austin", "index.html">>, FALSE)
X0 == Abs("other.com", <<"x">>, FALSE)
T1 == Abs("truetour.app", <<"tt", "abc">>, FALSE)
T2 == Abs("my.visitingmedia.com", <<"tt", "xyz">>, FALSE)

Link(h) == [href |-> h, tour_text |-> FALSE, in_container |-> FALSE]
NoPage == [iframes |-> <<>>, data_links |-> <<>>, anchors |-> <<>>, buttons |-> 0]

\* the parsed content of the pages of the sites that are crawled
Page(url) ==
    CASE url \in {P0, P0NoSlash, P0Index} ->
           [iframes |-> <<T1>>, data_links |-> <<>>,
            anchors |-> << Link(P1), Link(Rel(<<"rooms">>, FALSE)), Link(X0),
                           Link(D0), Link(Hash("top")) >>,
            buttons |-> 0]
      [] url = P1 ->
           [iframes |-> <<T1>>, data_links |-> <<>>,
            anchors |-> << Link(P0), Link([P2 EXCEPT !.frag = "pool"]),
                           [href |-> Rel(<<"tour">>, FALSE), tour_text |-> TRUE,
                            in_container |-> TRUE] >>,
            buttons |-> 0]
      [] url = P2 ->
           [iframes |-> <<>>, data_links |-> <<T2>>,
            anchors |-> << Link(P0), Link(P0NoSlash),
                           [href |-> Hash(""), tour_text |-> FALSE,
                            in_container |-> TRUE] >>,
            buttons |-> 0]
      [] url = D0 ->
           [iframes |-> <<>>, data_links |-> <<T2>>, anchors |-> << Link(X0) >>,
            buttons |-> 1]
      [] OTHER -> NoPage

\* rendered html a fetch may return: [size, phrases]
HtmlNormal == [size |-> 60000, phrases |-> {"<main"}]
HtmlCaptcha == [size |-> 30000, phrases |-> {"CAPTCHA"}]
HtmlChoices(url) ==
    IF url = P1 THEN {HtmlNormal, HtmlCaptcha}
    ELSE IF url = D0 THEN {HtmlNormal, HtmlCaptcha}
    ELSE {HtmlNormal}

\* where a navigation to a tour URL may settle
FinalGood == Abs("visitingmedia.com", <<"media", "123456">>, FALSE)
FinalBad == Abs("visitingmedia.com", <<"all-assets-share">>, FALSE)
FinalChoices(url) ==
    IF url.kind # "abs" THEN {}
    ELSE IF url = T1 THEN {FinalGood, FinalBad, T1}
    ELSE {FinalGood}

\* ---------------------------------------------------------------- the state
VARIABLES
    pc,                   \* position of the driver / crawl loop
    mode,                 \* "single" (run_single_mode) or "batch" (run_batch_mode)
    max_pages,            \* page budget handed to crawl_website
    results,              \* self.results
    manual_review_sites,  \* self.manual_review_sites
    visited_urls,         \* self.visited_urls
    base_domain,          \* self.base_domain
    crawl_path,           \* self.crawl_path
    sheets_client,        \* self.sheets_client is not None
    worksheet,            \* self.worksheet is not None
    totals,               \* properties_processed, total_good, total_bad, total_errors
    last_sheet_row,       \* self.last_sheet_row
    session,              \* playwright / browser / context / page: none, open, closed
    website_url,          \* crawl_website argument
    website_name,         \* crawl_website argument
    pages_to_crawl,       \* crawl_website local
    pages_crawled,        \* crawl_website local
    current_url,          \* crawl_website local
    cands,                \* _check_redirect calls _check_tour_links still has to make
    redirect_pages,       \* pages opened by _check_redirect that are not closed
    rows,                 \* data_rows read from the input sheet
    row_i,                \* index of the row the batch loop is at
    urls,                 \* URLs of the current row still to crawl
    results_before,       \* run_batch_mode local
    sheet,                \* rows held by the output worksheet (the sink)
    artifact,             \* redirect_checker_results.json
    review_artifact,      \* manual_review_sites.json
    clock,                \* datetime.now()
    fetch_log,            \* URLs self.page.goto was called with in this crawl
    faults,               \* failures injected so far
    probe                 \* argument and result of a function applied on its own

vars == << pc, mode, max_pages, results, manual_review_sites, visited_urls,
           base_domain, crawl_path, sheets_client, worksheet, totals,
           last_sheet_row, session, website_url, website_name, pages_to_crawl,
           pages_crawled, current_url, cands, redirect_pages, rows, row_i, urls,
           results_before, sheet, artifact, review_artifact, clock, fetch_log,
           faults, probe >>

checker_vars == << results, manual_review_sites, visited_urls, base_domain,
                   crawl_path, sheets_client, worksheet, totals, last_sheet_row >>
crawl_vars == << website_url, website_name, pages_to_crawl, pages_crawled,
                 current_url, cands, redirect_pages, fetch_log >>
batch_vars == << rows, row_i, urls, results_before >>
sink_vars == << sheet, artifact, review_artifact >>

\* number of failures (fetch, resolve, parse, sink, browser start) one run may see
MaxFaults == 2

Resources == <<"playwright", "browser", "context", "page">>
NoSession == [r \in Range(Resources) |-> "none"]

\* the input sheet, as rows [name, urls] (urls: the non-blank cells of columns
\* B-D); a run reads its first MaxRows rows or fewer
InputSheet ==
    << [name |-> "Dallas", urls |-> <<D0, D0>>],
       [name |-> "Blank", urls |-> <<>>],
       [name |-> "Austin", urls |-> <<P0>>],
       [name |-> "Dallas again", urls |-> <<D0>>] >>

\* a row of the worksheet; note carries the numbers of a blocked or summary row
Row(kind, name, url, page, dest, status, ts, note) ==
    [kind |-> kind, name |-> name, url |-> url, page |-> page, dest |-> dest,
     status |-> status, ts |-> ts, note |-> note]
PlainRow(kind) == Row(kind, "", Empty, Empty, Empty, "", 0, <<>>)
\* what an earlier run left in the worksheet
StaleRow == PlainRow("stale")

NoProbe == [arg |-> Empty, ret |-> "none"]

\* RedirectChecker.__init__ has run (lines 15-36); the driver is about to start
InitCommon ==
    /\ results = <<>>
    /\ manual_review_sites = <<>>
    /\ visited_urls = {}
    /\ sheets_client \in BOOLEAN
    /\ worksheet = FALSE
    /\ totals = [properties |-> 0, good |-> 0, bad |-> 0, errors |-> 0]
    /\ last_sheet_row = 2
    /\ session = NoSession
    /\ pages_to_crawl = <<>>
    /\ pages_crawled = 0
    /\ current_url = Empty
    /\ cands = <<>>
    /\ redirect_pages = 0
    /\ row_i = 1
    /\ urls = <<>>
    /\ results_before = 0
    /\ sheet = << StaleRow >>
    /\ artifact = [written |-> FALSE, content |-> <<>>]
    /\ review_artifact = [written |-> FALSE, content |-> <<>>]
    /\ clock = 1
    /\ fetch_log = <<>>
    /\ faults = 0
    /\ max_pages \in 0..MaxPagesBound

InitSingle ==
    /\ InitCommon
    /\ mode = "single"
    /\ pc = "crawl_init"
    /\ website_url \in {P0, D0}
    /\ website_name = "Single"
    /\ base_domain = Netloc(website_url)
    /\ crawl_path = _extract_crawl_path(website_url)
    /\ rows = <<>>

InitBatch ==
    /\ InitCommon
    /\ mode = "batch"
    /\ pc = "b_init_sheet"
    /\ website_url = Empty
    /\ website_name = ""
    /\ base_domain = "example.com"
    /\ crawl_path = <<>>
    /\ \E n \in 0..MaxRows : n <= Len(InputSheet) /\ rows = SubSeq(InputSheet, 1, n)

Init == (InitSingle \/ InitBatch) /\ probe = NoProbe

\* ------------------------------------------------------------ crawl_website
is_same_domain(url, domain) == Netloc(url) = domain

is_within_crawl_path(url, cpath) == PathStartsWith(url, cpath)

\* a plausible slip: the loop ends one page short of the budget
Mut_loop_stops_early(queue, crawled, budget) == queue # <<>> /\ crawled + 1 < budget

\* a plausible slip: the loop runs until the frontier is empty
Mut_loop_no_budget(queue, crawled, budget) == queue # <<>>

\* a plausible slip: the budget test counts one page too many
Mut_loop_cond(queue, crawled, budget) == queue # <<>> /\ crawled <= budget

\* line 168: while pages_to_crawl and pages_crawled < max_pages
LoopCond(queue, crawled, budget) == queue # <<>> /\ crawled < budget

\* a plausible slip: the exception of one page leaves crawl_website
Mut_page_exception == "raised"

\* lines 214-215: except Exception prints and the while loop goes on
AfterPageException == "loop"

\* a plausible slip: no continue, the blocked page is parsed like any other
Mut_blocked_falls_through == "tour"

\* lines 188-190: a blocked page ends this iteration (continue)
AfterBlocked == "loop"

\* self._init_browser() (lines 117-127, called at line 162 outside the try):
\* the first k acquisitions succeed; with k < 4 the next one raises and the
\* exception leaves crawl_website
InitBrowser ==
    /\ pc = "crawl_init"
    /\ \E k \in 0..4 :
        /\ k < 4 => faults < MaxFaults
        /\ faults' = IF k < 4 THEN faults + 1 ELSE faults
        /\ session' = [r \in Range(Resources) |->
                         IF \E i \in 1..k : Resources[i] = r THEN "open" ELSE session[r]]
        /\ IF k = 4
           THEN /\ pc' = "loop"
                /\ pages_to_crawl' = <<website_url>>
                /\ pages_crawled' = 0
                /\ fetch_log' = <<>>
           ELSE /\ pc' = "raised"
                /\ UNCHANGED <<pages_to_crawl, pages_crawled, fetch_log>>
    /\ UNCHANGED << mode, max_pages, checker_vars, website_url, website_name,
                    current_url, cands, batch_vars, sink_vars, clock, probe,
                    redirect_pages >>

\* a plausible slip: pop() takes the entry added last
Mut_pop_last(queue) == Len(queue)

\* line 169: pop(0) takes the entry at the front
PopIndex(queue) == 1

\* lines 169-175: pop the next URL; skip it when visited, else mark it and
\* count it
Dequeue ==
    /\ pc = "loop"
    /\ LoopCond(pages_to_crawl, pages_crawled, max_pages)
    /\ current_url' = pages_to_crawl[PopIndex(pages_to_crawl)]
    /\ pages_to_crawl' =
         SubSeq(pages_to_crawl, 1, PopIndex(pages_to_crawl) - 1)
         \o SubSeq(pages_to_crawl, PopIndex(pages_to_crawl) + 1, Len(pages_to_crawl))
    /\ IF pages_to_crawl[PopIndex(pages_to_crawl)] \in visited_urls
       THEN UNCHANGED <<visited_urls, pages_crawled, pc>>
       ELSE /\ visited_urls' = visited_urls \cup {pages_to_crawl[PopIndex(pages_to_crawl)]}
            /\ pages_crawled' = pages_crawled + 1
            /\ pc' = "goto"
    /\ UNCHANGED << mode, max_pages, results, manual_review_sites, base_domain,
                    crawl_path, sheets_client, worksheet, totals, last_sheet_row,
                    session, website_url, website_name, cands, batch_vars,
                    sink_vars, clock, fetch_log, faults, probe,
                    redirect_pages >>

\* lines 181-185 raise (navigation error, timeout): caught at line 214, which
\* only prints
PageGotoFails ==
    /\ pc = "goto"
    /\ faults < MaxFaults
    /\ faults' = faults + 1
    /\ fetch_log' = Append(fetch_log, current_url)
    /\ pc' = AfterPageException
    /\ UNCHANGED << mode, max_pages, checker_vars, session, website_url,
                    website_name, pages_to_crawl, pages_crawled, current_url,
                    cands, batch_vars, sink_vars, clock, probe,
                    redirect_pages >>

\* a plausible slip: the entry replaces the list instead of being appended
Mut_is_page_blocked_overwrites(html, url, name, sites, now) ==
    LET b == IsBlockedValue(html) IN
    [ret |-> b,
     sites |-> IF b THEN << [website_name |-> name, url |-> url,
                             reason |-> html.size, timestamp |-> now] >>
               ELSE sites]

\* _is_page_blocked (lines 221-260): the value returned and the manual-review
\* list it leaves
_is_page_blocked(html, url, name, sites, now) ==
    LET b == IsBlockedValue(html) IN
    [ret |-> b,
     sites |-> IF b THEN Append(sites, [website_name |-> name, url |-> url,
                                        reason |-> html.size, timestamp |-> now])
               ELSE sites]

\* lines 181-190: the page loads and is judged blocked
PageBlocked ==
    /\ pc = "goto"
    /\ \E html \in HtmlChoices(current_url) :
         LET b == _is_page_blocked(html, current_url, website_name,
                                   manual_review_sites, clock)
         IN  /\ b.ret
             /\ manual_review_sites' = b.sites
    /\ clock' = clock + 1
    /\ fetch_log' = Append(fetch_log, current_url)
    /\ pc' = AfterBlocked
    /\ UNCHANGED << mode, max_pages, results, visited_urls, base_domain,
                    crawl_path, sheets_client, worksheet, totals, last_sheet_row,
                    session, website_url, website_name, pages_to_crawl,
                    pages_crawled, current_url, cands, batch_vars, sink_vars,
                    faults, probe,
                    redirect_pages >>

\* lines 181-195: the page loads, is not blocked and is parsed;
\* _check_tour_links is entered
PageOk ==
    /\ pc = "goto"
    /\ \E html \in HtmlChoices(current_url) :
         ~_is_page_blocked(html, current_url, website_name,
                           manual_review_sites, clock).ret
    /\ cands' = TourCandidates(Page(current_url), current_url)
    /\ fetch_log' = Append(fetch_log, current_url)
    /\ pc' = "tour"
    /\ UNCHANGED << mode, max_pages, checker_vars, session, website_url,
                    website_name, pages_to_crawl, pages_crawled, current_url,
                    batch_vars, sink_vars, clock, faults, probe,
                    redirect_pages >>

Result(url, name, page_url, final, status, source, now, err) ==
    [website_name |-> name, original_url |-> url, page_url |-> page_url,
     redirects_to |-> final, status |-> status, source |-> source,
     timestamp |-> now, error_details |-> err]

\* a plausible slip: the message of the exception is not kept
Mut_failed_result_no_detail(c, name, page_url, now) ==
    Result(c.url, name, page_url, Empty, "ERROR", c.source, now, "")

\* lines 381-390: the result recorded when the resolution of a candidate raises
FailedResult(c, name, page_url, now) ==
    Result(c.url, name, page_url, Empty, "ERROR", c.source, now, "navigation failed")

\* a plausible slip: the page is closed only after a navigation that worked
Mut_close_on_success_only(open, ok) == IF ok THEN open - 1 ELSE open

\* lines 363-364: finally: redirect_page.close()
RedirectPagesAfter(open, ok) == open - 1

\* _check_redirect (lines 355-359) is called for the next candidate and opens
\* a page of its own
OpenRedirectPage ==
    /\ pc = "tour"
    /\ cands # <<>>
    /\ redirect_pages' = redirect_pages + 1
    /\ pc' = "redirect"
    /\ UNCHANGED << mode, max_pages, checker_vars, session, website_url,
                    website_name, pages_to_crawl, pages_crawled, current_url,
                    cands, batch_vars, sink_vars, clock, fetch_log, faults, probe >>

\* _check_redirect (lines 360-391): the navigation settles on a final URL,
\* which is classified, or it raises; the page is closed either way and one
\* result is appended
CheckRedirect ==
    /\ pc = "redirect"
    /\ LET c == Head(cands) IN
       \/ \E final \in FinalChoices(c.url) :
            /\ results' = Append(results,
                   Result(c.url, website_name, current_url, final,
                          _categorize_redirect(final), c.source, clock, ""))
            /\ redirect_pages' = RedirectPagesAfter(redirect_pages, TRUE)
            /\ faults' = faults
       \/ /\ c.url.kind # "abs" \/ faults < MaxFaults
          /\ faults' = IF c.url.kind # "abs" THEN faults ELSE faults + 1
          /\ redirect_pages' = RedirectPagesAfter(redirect_pages, FALSE)
          /\ results' = Append(results,
                 FailedResult(c, website_name, current_url, clock))
    /\ cands' = Tail(cands)
    /\ clock' = clock + 1
    /\ pc' = "tour"
    /\ UNCHANGED << mode, max_pages, manual_review_sites, visited_urls,
                    base_domain, crawl_path, sheets_client, worksheet, totals,
                    last_sheet_row, session, website_url, website_name,
                    pages_to_crawl, pages_crawled, current_url, batch_vars,
                    sink_vars, fetch_log, probe >>

\* an exception while the page is parsed or searched (lines 192-209): caught
\* at line 214, the rest of the page is dropped
ParseFails ==
    /\ pc = "tour"
    /\ faults < MaxFaults
    /\ faults' = faults + 1
    /\ cands' = <<>>
    /\ pc' = AfterPageException
    /\ UNCHANGED << mode, max_pages, checker_vars, session, website_url,
                    website_name, pages_to_crawl, pages_crawled, current_url,
                    batch_vars, sink_vars, clock, fetch_log, probe,
                    redirect_pages >>

\* lines 198-209: the queue after the links of the page have been looked at
\* a plausible slip: a URL already in the frontier is appended again
Mut_enqueue_queued_again(full_url, queue, visited, domain, cpath, budget) ==
    /\ is_same_domain(full_url, domain)
    /\ is_within_crawl_path(full_url, cpath)
    /\ full_url \notin visited
    /\ Len(queue) < budget

\* a plausible slip: the path prefix of the start URL is not looked at
Mut_enqueue_any_path(full_url, queue, visited, domain, cpath, budget) ==
    /\ is_same_domain(full_url, domain)
    /\ full_url \notin visited
    /\ Len(queue) < budget
    /\ full_url \notin Range(queue)

\* lines 204-208: the tests a link passes before it is appended
ShouldEnqueue(full_url, queue, visited, domain, cpath, budget) ==
    /\ is_same_domain(full_url, domain)
    /\ is_within_crawl_path(full_url, cpath)
    /\ full_url \notin visited
    /\ Len(queue) < budget
    /\ full_url \notin Range(queue)

RECURSIVE Enqueue(_, _, _, _, _, _, _)
Enqueue(anchors, cur, queue, visited, domain, cpath, budget) ==
    IF anchors = <<>> THEN queue
    ELSE LET full_url == StripFragment(urljoin(cur, Head(anchors).href))
             take == ShouldEnqueue(full_url, queue, visited, domain, cpath, budget)
         IN  Enqueue(Tail(anchors), cur,
                     IF take THEN Append(queue, full_url) ELSE queue,
                     visited, domain, cpath, budget)

FollowLinks ==
    /\ pc = "tour"
    /\ cands = <<>>
    /\ pages_to_crawl' = Enqueue(Page(current_url).anchors, current_url,
                                 pages_to_crawl, visited_urls, base_domain,
                                 crawl_path, max_pages)
    /\ pc' = "loop"
    /\ UNCHANGED << mode, max_pages, checker_vars, session, website_url,
                    website_name, pages_crawled, current_url, cands, batch_vars,
                    sink_vars, clock, fetch_log, faults, probe,
                    redirect_pages >>

\* _close_browser (lines 129-138): every field that is set is closed
_close_browser(sess) == [r \in DOMAIN sess |-> IF sess[r] = "none" THEN "none" ELSE "closed"]

\* lines 217-219: the loop ends, the finally clause closes the browser and
\* crawl_website returns to its caller
CrawlReturns ==
    /\ pc = "loop"
    /\ ~LoopCond(pages_to_crawl, pages_crawled, max_pages)
    /\ session' = _close_browser(session)
    /\ pc' = IF mode = "single" THEN "save" ELSE "b_url"
    /\ UNCHANGED << mode, max_pages, checker_vars, crawl_vars, batch_vars,
                    sink_vars, clock, faults, probe >>

\* ---------------------------------------------------------------- reporting
ResultRow(r) ==
    Row("result", r.website_name, r.original_url, r.page_url, r.redirects_to,
        r.status, r.timestamp, <<>>)

\* one sheet row per result, in order
RECURSIVE ResultRows(_)
ResultRows(rs) ==
    IF rs = <<>> THEN <<>> ELSE <<ResultRow(Head(rs))>> \o ResultRows(Tail(rs))

\* one sheet row per manual-review entry (lines 95-102 write the reason in the
\* fourth column, lines 478-485 leave it empty)
RECURSIVE BlockedRows(_, _)
BlockedRows(sites, with_reason) ==
    IF sites = <<>> THEN <<>>
    ELSE LET site == Head(sites) IN
         << Row("blocked", site.website_name, site.url, Empty, Empty, "BLOCKED",
                site.timestamp, IF with_reason THEN <<site.reason>> ELSE <<>>) >>
         \o BlockedRows(Tail(sites), with_reason)

IsProblem(r) == r.status \in {"BAD REDIRECT", "ERROR"}

\* a plausible slip: every result is sent
Mut_problem_all(rs) == rs

\* lines 70 and 457: [r for r in ... if r['status'] in ['BAD REDIRECT', 'ERROR']]
ProblemResults(rs) == SelectSeq(rs, IsProblem)

\* a plausible slip: the slice starts one entry late
Mut_new_results_late(rs, before) == SubSeq(rs, before + 2, Len(rs))

\* a plausible slip: the whole log is flushed again
Mut_new_results_all(rs, before) == rs

\* line 611: checker.results[results_before:]
NewResults(rs, before) == SubSeq(rs, before + 1, Len(rs))

CountStatus(rs, st) == Cardinality({ i \in DOMAIN rs : rs[i].status = st })

\* rows _append_to_sheet sends for results_to_add (lines 70-80)
AppendRows(results_to_add) == ResultRows(ProblemResults(results_to_add))

\* rows _update_sheet_summary sends (lines 91-113)
SummaryRows(sites, tot, now) ==
    (IF sites # <<>>
     THEN <<PlainRow("blank"), PlainRow("blocked-title")>> \o BlockedRows(sites, TRUE)
     ELSE <<>>)
    \o << PlainRow("blank"),
          Row("summary", "", Empty, Empty, Empty, "", now,
              <<tot.properties, tot.good, tot.bad, tot.errors, Len(sites)>>) >>

\* rows _write_to_sheets sends after worksheet.clear() (lines 457-485)
FinalRows(rs, sites) ==
    <<PlainRow("final-header")>> \o ResultRows(ProblemResults(rs))
    \o (IF sites # <<>>
        THEN <<PlainRow("blank"), PlainRow("final-blocked-title")>>
             \o BlockedRows(sites, FALSE)
        ELSE <<>>)

\* the numbers of rows a loop of append_row calls may get through: all of
\* them, or fewer when a call raises
Written(rws) == IF faults < MaxFaults THEN 0..Len(rws) ELSE {Len(rws)}

\* _init_output_sheet (lines 48-62), called once by run_batch_mode (line 572)
InitOutputSheet ==
    /\ pc = "b_init_sheet"
    /\ pc' = "b_row"
    /\ IF ~sheets_client
       THEN UNCHANGED <<worksheet, sheet, last_sheet_row, faults>>
       ELSE \/ /\ worksheet' = TRUE
               /\ sheet' = <<PlainRow("header")>>
               /\ last_sheet_row' = 2
               /\ UNCHANGED faults
            \/ /\ faults < MaxFaults
               /\ faults' = faults + 1
               /\ UNCHANGED last_sheet_row
               /\ \/ UNCHANGED <<worksheet, sheet>>
                  \/ worksheet' = TRUE /\ sheet' \in {sheet, <<>>}
    /\ UNCHANGED << mode, max_pages, results, manual_review_sites, visited_urls,
                    base_domain, crawl_path, sheets_client, totals, session,
                    crawl_vars, batch_vars, artifact, review_artifact, clock, probe >>

\* lines 575-592: a row without URLs is skipped
BatchSkipRow ==
    /\ pc = "b_row"
    /\ row_i <= Len(rows)
    /\ rows[row_i].urls = <<>>
    /\ row_i' = row_i + 1
    /\ UNCHANGED << pc, mode, max_pages, checker_vars, session, crawl_vars, rows,
                    urls, results_before, sink_vars, clock, faults, probe >>

\* lines 579-600: the next property is taken up
BatchStartProperty ==
    /\ pc = "b_row"
    /\ row_i <= Len(rows)
    /\ rows[row_i].urls # <<>>
    /\ urls' = rows[row_i].urls
    /\ website_name' = rows[row_i].name
    /\ results_before' = Len(results)
    /\ pc' = "b_url"
    /\ UNCHANGED << mode, max_pages, checker_vars, session, website_url,
                    pages_to_crawl, pages_crawled, current_url, cands, fetch_log,
                    rows, row_i, sink_vars, clock, faults, probe,
                    redirect_pages >>

\* lines 603-608: the scope is set for the next URL of the property, the
\* visited set is reset and crawl_website is called
BatchNextUrl ==
    /\ pc = "b_url"
    /\ urls # <<>>
    /\ website_url' = Head(urls)
    /\ urls' = Tail(urls)
    /\ base_domain' = Netloc(Head(urls))
    /\ crawl_path' = _extract_crawl_path(Head(urls))
    /\ visited_urls' = {}
    /\ pc' = "crawl_init"
    /\ UNCHANGED << mode, max_pages, results, manual_review_sites, sheets_client,
                    worksheet, totals, last_sheet_row, session, website_name,
                    pages_to_crawl, pages_crawled, current_url, cands, fetch_log,
                    rows, row_i, results_before, sink_vars, clock, faults, probe,
                    redirect_pages >>

\* lines 610-624: the running totals are updated and the property's problem
\* results are appended to the sheet (_append_to_sheet, lines 64-83)
BatchFinishProperty ==
    /\ pc = "b_url"
    /\ urls = <<>>
    /\ LET new_results == NewResults(results, results_before)
           rws == AppendRows(new_results)
       IN  /\ totals' = [properties |-> totals.properties + 1,
                         good |-> totals.good + CountStatus(new_results, "GOOD"),
                         bad |-> totals.bad + CountStatus(new_results, "BAD REDIRECT"),
                         errors |-> totals.errors + CountStatus(new_results, "ERROR")]
           /\ IF ~worksheet
              THEN UNCHANGED <<sheet, last_sheet_row, faults>>
              ELSE \E j \in Written(rws) :
                     /\ sheet' = sheet \o SubSeq(rws, 1, j)
                     /\ last_sheet_row' = last_sheet_row + j
                     /\ faults' = IF j < Len(rws) THEN faults + 1 ELSE faults
    /\ row_i' = row_i + 1
    /\ pc' = "b_row"
    /\ UNCHANGED << mode, max_pages, results, manual_review_sites, visited_urls,
                    base_domain, crawl_path, sheets_client, worksheet, session,
                    crawl_vars, rows, urls, results_before, artifact,
                    review_artifact, clock, probe >>

\* line 633: _update_sheet_summary (lines 85-115) after the last row
BatchSummary ==
    /\ pc = "b_row"
    /\ row_i > Len(rows)
    /\ IF ~worksheet
       THEN UNCHANGED <<sheet, faults>>
       ELSE LET rws == SummaryRows(manual_review_sites, totals, clock) IN
            \E j \in Written(rws) :
              /\ sheet' = sheet \o SubSeq(rws, 1, j)
              /\ faults' = IF j < Len(rws) THEN faults + 1 ELSE faults
    /\ pc' = "save"
    /\ UNCHANGED << mode, max_pages, checker_vars, session, crawl_vars,
                    batch_vars, artifact, review_artifact, clock, probe >>

\* save_results (lines 404-447) with _write_to_sheets (lines 449-490)
SaveResults ==
    /\ pc = "save"
    /\ pc' = "done"
    /\ IF results = <<>> /\ manual_review_sites = <<>>
       THEN UNCHANGED <<sink_vars, faults>>
       ELSE /\ artifact' = [written |-> TRUE, content |-> results]
            /\ review_artifact' =
                 IF manual_review_sites # <<>>
                 THEN [written |-> TRUE, content |-> manual_review_sites]
                 ELSE review_artifact
            /\ IF ~sheets_client
               THEN UNCHANGED <<sheet, faults>>
               ELSE LET rws == FinalRows(results, manual_review_sites) IN
                    \/ /\ faults < MaxFaults
                       /\ faults' = faults + 1
                       /\ sheet' = sheet
                    \/ \E j \in Written(rws) :
                         /\ sheet' = SubSeq(rws, 1, j)
                         /\ faults' = IF j < Len(rws) THEN faults + 1 ELSE faults
    /\ UNCHANGED << mode, max_pages, checker_vars, session, crawl_vars,
                    batch_vars, clock, probe >>

Next ==
    \/ InitBrowser
    \/ Dequeue
    \/ PageGotoFails
    \/ PageBlocked
    \/ PageOk
    \/ OpenRedirectPage
    \/ CheckRedirect
    \/ ParseFails
    \/ FollowLinks
    \/ CrawlReturns
    \/ InitOutputSheet
    \/ BatchSkipRow
    \/ BatchStartProperty
    \/ BatchNextUrl
    \/ BatchFinishProperty
    \/ BatchSummary
    \/ SaveResults

Spec == Init /\ [][Next]_vars

\* ---------------------------------------- one crawl from any start address
\* start URLs run_single_mode may be given (lines 494-516)
ScopeStarts == {P0, P0NoSlash, P0Index, D0}

InitScope ==
    /\ InitCommon
    /\ sheets_client = FALSE
    /\ mode = "single"
    /\ pc = "crawl_init"
    /\ website_url \in ScopeStarts
    /\ website_name = "Single"
    /\ base_domain = Netloc(website_url)
    /\ crawl_path = _extract_crawl_path(website_url)
    /\ rows = <<>>
    /\ probe = NoProbe

\* crawl_website followed by save_results (lines 516-517)
NextCrawl ==
    \/ InitBrowser
    \/ Dequeue
    \/ PageGotoFails
    \/ PageBlocked
    \/ PageOk
    \/ OpenRedirectPage
    \/ CheckRedirect
    \/ ParseFails
    \/ FollowLinks
    \/ CrawlReturns
    \/ SaveResults

SpecScope == InitScope /\ [][NextCrawl]_vars

\* the program is sequential and every call that waits has a timeout (lines
\* 181, 361): a step that can be taken is taken
SpecScopeFair == SpecScope /\ WF_vars(NextCrawl)

\* ------------------------------------------- functions applied on their own
\* final URLs handed to _categorize_redirect
SegTokens == {"tt", "media", "123456", "all-assets-share", "All-Assets-Share"}
QueryChoices ==
    { <<>>, << <<"asset", "42">> >>, << <<"asset", "">> >>, << <<"Asset", "42">> >>,
      << <<"ref", "/all-assets-share">> >>, << <<"ref", "1">>, <<"asset", "42">> >> }
RECURSIVE SeqsUpTo(_, _)
SeqsUpTo(S, n) ==
    IF n = 0 THEN {<<>>}
    ELSE LET shorter == SeqsUpTo(S, n - 1)
         IN  shorter \cup { Append(q, x) : q \in shorter, x \in S }

ClassifyUrls ==
    { AbsQ(h, p, q, f) : h \in {"truetour.app", "visitingmedia.com", "example.com"},
                         p \in SeqsUpTo(SegTokens, MaxSegs),
                         q \in QueryChoices, f \in {"", "/all-assets-share"} }

InitCategorize ==
    /\ InitSingle
    /\ sheets_client = FALSE
    /\ max_pages = 0
    /\ website_url = P0
    /\ probe \in [arg : ClassifyUrls, ret : {"none"}]

\* status = self._categorize_redirect(final_url) (line 366)
Categorize ==
    /\ pc = "crawl_init"
    /\ probe.ret = "none"
    /\ probe' = [probe EXCEPT !.ret = _categorize_redirect(probe.arg)]
    /\ pc' = "cat_done"
    /\ UNCHANGED << mode, max_pages, checker_vars, session, crawl_vars,
                    batch_vars, sink_vars, clock, faults >>

SpecCategorize == InitCategorize /\ [][Categorize]_vars

\* html handed to _is_page_blocked
BlockSizes == {0, 100, 19999, 20000, 49999, 50000, 60000}
BlockPhrases == {"CAPTCHA", "robots", "<main", "class=\"content\"", "hello"}
\* (a page that contains a phrase is at least as long as the phrase)
BlockHtmls ==
    { h \in [size : BlockSizes, phrases : SUBSET BlockPhrases] :
        h.phrases # {} => h.size >= 100 }

InitBlocked ==
    /\ InitSingle
    /\ sheets_client = FALSE
    /\ max_pages = 0
    /\ website_url = P0
    /\ probe \in [arg : BlockHtmls, ret : {"none"}]

\* self._is_page_blocked(html_content, current_url, website_name) (line 188)
CheckBlocked ==
    /\ pc = "crawl_init"
    /\ probe.ret = "none"
    /\ LET b == _is_page_blocked(probe.arg, website_url, website_name,
                                 manual_review_sites, clock)
       IN  /\ probe' = [probe EXCEPT !.ret = IF b.ret THEN "True" ELSE "False"]
           /\ manual_review_sites' = b.sites
    /\ pc' = "blk_done"
    /\ UNCHANGED << mode, max_pages, results, visited_urls, base_domain,
                    crawl_path, sheets_client, worksheet, totals, last_sheet_row,
                    session, crawl_vars, batch_vars, sink_vars, clock, faults >>

SpecBlocked == InitBlocked /\ [][CheckBlocked]_vars

\* ------------------------------------------------------------------- claims
Last(q) == q[Len(q)]
IsPrefix(p, q) == Len(p) <= Len(q) /\ SubSeq(q, 1, Len(p)) = p

\* C1: within one call of crawl_website the number of pages fetched (page.goto
\* on a dequeued URL) never exceeds max_pages, whatever the fetches do.
C1_FetchesWithinBudget == Len(fetch_log) <= max_pages

\* the budget is used up while the frontier still holds a URL, after a failed
\* fetch
C1_Witness ==
    /\ max_pages = 2
    /\ fetch_log = <<P0, P1>>
    /\ pages_to_crawl = <<P2>>
    /\ faults >= 1
    /\ pc = "loop"

\* C2: within one crawl no two entries of the result log share the same
\* original candidate URL.
C2_NoDuplicateOriginal ==
    mode = "single" =>
        \A i, j \in DOMAIN results :
            i # j => results[i].original_url # results[j].original_url

\* a step in which the fetch or the parsing of the dequeued page fails
PageFailureStep == pc \in {"goto", "tour"} /\ faults' = faults + 1 /\ results' = results

\* C3: a fetch or parsing failure on a dequeued page does not abort the crawl:
\* the loop is re-entered with frontier, counter and browser session intact;
\* from the loop head the next step dequeues the head of the frontier whenever
\* the frontier is non-empty and the budget is not used up, and otherwise
\* crawl_website returns to its caller.
C3_PageFailureDoesNotAbort ==
    [][ /\ PageFailureStep =>
             /\ pc' = "loop"
             /\ pages_to_crawl' = pages_to_crawl
             /\ pages_crawled' = pages_crawled
             /\ session' = session
        /\ (pc = "loop" /\ pages_to_crawl # <<>> /\ pages_crawled < max_pages) =>
             /\ current_url' = Head(pages_to_crawl)
             /\ pc' \in {"loop", "goto"}
        /\ (pc = "loop" /\ ~(pages_to_crawl # <<>> /\ pages_crawled < max_pages)) =>
             pc' \in {"save", "b_url"}
      ]_vars

\* page 2 of the crawl failed (it left no result and no manual-review entry),
\* page 3 was fetched and the run completed
C3_Witness ==
    /\ pc = "done"
    /\ fetch_log = <<P0, P1, P2>>
    /\ \A i \in DOMAIN results : results[i].page_url # P1
    /\ \A i \in DOMAIN manual_review_sites : manual_review_sites[i].url # P1
    /\ \E i \in DOMAIN results : results[i].page_url = P2

\* C4: every failed page fetch records exactly one ERROR page-level event in
\* the aggregator (result log, manual-review list or error count).
C4_FailedFetchRecorded ==
    [][ PageGotoFails =>
          \/ /\ Len(results') = Len(results) + 1
             /\ Last(results').status = "ERROR"
          \/ Len(manual_review_sites') = Len(manual_review_sites) + 1
          \/ totals'.errors = totals.errors + 1
      ]_vars

\* the link only page P1 carries
P1Tour == Abs("example.com", <<"austin", "tour">>, FALSE)

\* C5: a page judged bot-blocked gets exactly one manual-review entry, none of
\* its tour candidates is resolved or recorded, none of its links enters the
\* frontier, and the crawl goes back to the loop head.
C5_BlockedPageSkipped ==
    /\ [][ (PageBlocked \/ manual_review_sites' # manual_review_sites) =>
             /\ pc = "goto"
             /\ Len(manual_review_sites') = Len(manual_review_sites) + 1
             /\ IsPrefix(manual_review_sites, manual_review_sites')
             /\ Last(manual_review_sites').url = current_url
             /\ results' = results
             /\ pages_to_crawl' = pages_to_crawl
             /\ cands' = <<>>
             /\ pc' = "loop"
         ]_vars
    /\ [](\A i \in DOMAIN manual_review_sites :
             (mode = "single" /\ manual_review_sites[i].url = P1) =>
                /\ \A j \in DOMAIN results : results[j].page_url # P1
                /\ P1Tour \notin Range(pages_to_crawl) \cup visited_urls
                /\ \A k \in DOMAIN manual_review_sites :
                     manual_review_sites[k].url = P1 => k = i)

\* page 2 was blocked and page 3 was fetched after it
C5_Witness ==
    /\ mode = "single"
    /\ fetch_log = <<P0, P1, P2>>
    /\ \E i \in DOMAIN manual_review_sites : manual_review_sites[i].url = P1
    /\ \E i \in DOMAIN results : results[i].page_url = P2

\* the bot-block policy as stated
PolicyBlocked(html) ==
    /\ html.size < MIN_PAGE_SIZE
    /\ \/ \E ind \in bot_indicators : InHtmlLower(html, ind)
       \/ /\ \A m \in content_markers : ~InHtmlLower(html, m)
          /\ html.size < VerySmall

\* C6: _is_page_blocked returns true iff the page is below the minimum size
\* and (contains an indicator phrase or (lacks every content marker and is very
\* small)).
C6_BlockedIffPolicy ==
    pc = "blk_done" => ((probe.ret = "True") <=> PolicyBlocked(probe.arg))

\* rule 1: a media segment followed by a numeric identifier
MediaAssetRule(url) ==
    \E i \in DOMAIN url.segs :
        /\ url.segs[i] = "media"
        /\ i < Len(url.segs)
        /\ url.segs[i + 1] = "123456"

\* the domain a tour link is on before its client-side redirect
PreRedirectDomain(url) == Contains(url.host, "truetour.app")

\* C7: a final URL still on the pre-redirect domain that matches neither the
\* media-asset rule nor the all-assets rule is classified BAD REDIRECT.
C7_StuckIsBad ==
    pc = "cat_done" =>
        LET u == probe.arg IN
        ( /\ PreRedirectDomain(u)
          /\ ~MediaAssetRule(u)
          /\ ~HasAllAssetsShare(u) ) => probe.ret = "BAD REDIRECT"

HasAssetKey(url) == \E i \in DOMAIN url.query : url.query[i][1] = "asset"
HasAssetValue(url) ==
    \E i \in DOMAIN url.query : url.query[i][1] = "asset" /\ url.query[i][2] # ""

C9_ArtifactAlwaysWritten == pc = "done" => artifact.written

\* a step of run_batch_mode that ends a property (totals and incremental flush)
FlushStep == pc = "b_url" /\ pc' = "b_row"

\* C10: an incremental flush only appends rows; every row it appends is a BAD
\* REDIRECT or ERROR result of the log recorded after the previous flush (the
\* totals count exactly the results the earlier flushes covered), and is no row
\* the sheet already holds.
C10_FlushOnlyNewProblems ==
    [][ /\ FlushStep =>
             /\ IsPrefix(sheet, sheet')
             /\ \A k \in (Len(sheet) + 1)..Len(sheet') :
                  /\ sheet'[k].kind = "result"
                  /\ sheet'[k].status \in {"BAD REDIRECT", "ERROR"}
                  /\ \E i \in DOMAIN results :
                       /\ i > totals.good + totals.bad + totals.errors
                       /\ ResultRow(results[i]) = sheet'[k]
                  /\ \A k2 \in 1..(k - 1) : sheet'[k2] # sheet'[k]
             /\ totals'.good + totals'.bad + totals'.errors = Len(results)
        /\ ~FlushStep => totals' = totals
      ]_vars

\* two properties have each had problem rows flushed, and a GOOD result of the
\* log was sent by neither flush
C10_Witness ==
    /\ pc = "b_row"
    /\ totals.good >= 1
    /\ \E k \in DOMAIN sheet : sheet[k].kind = "result" /\ sheet[k].name = "Dallas"
    /\ \E k \in DOMAIN sheet : sheet[k].kind = "result" /\ sheet[k].name = "Austin"

\* C11: finalize only appends to the sink: when a batch run with an available
\* sink (the worksheet was opened and no sink call failed) is done, the sheet
\* still holds the row of every BAD REDIRECT and ERROR result the incremental
\* flushes wrote, then one row per manual-review entry, and it ends with the
\* totals summary row.
C11_FinalizeOnlyAppends ==
    (pc = "done" /\ mode = "batch" /\ worksheet /\ faults = 0) =>
        /\ \A i \in DOMAIN results :
             IsProblem(results[i]) =>
                \E k \in DOMAIN sheet : sheet[k] = ResultRow(results[i])
        /\ \A i \in DOMAIN manual_review_sites :
             \E k \in DOMAIN sheet :
                /\ sheet[k].kind = "blocked"
                /\ sheet[k].url = manual_review_sites[i].url
        /\ sheet # <<>>
        /\ Last(sheet).kind = "summary"

\* C12: in batch mode a browser session that cannot be started aborts only the
\* crawl of that property: the batch loop is back at the rest of the property's
\* URLs or at the next row.
C12_SetupFailureSkipsProperty ==
    [][ (mode = "batch" /\ pc = "crawl_init" /\ faults' = faults + 1) =>
           pc' \in {"b_url", "b_row"}
      ]_vars

\* C13: whenever crawl_website has returned or raised, no browser resource is
\* still open.
C13_ResourcesReleased ==
    pc \in {"raised", "save", "done", "b_url", "b_row"} =>
        \A r \in DOMAIN session : session[r] # "open"

\* the normalized path prefix of a start URL: its path, cut back to the parent
\* directory when it ends in a page document, as a sequence of directories
ScopePrefix(start) ==
    LET n == Len(start.segs) IN
    IF ~start.slash /\ n > 0 /\ start.segs[n] \in HtmlDocs
    THEN SubSeq(start.segs, 1, n - 1) ELSE start.segs

\* in_scope(start_url, u)
InScope(start, u) ==
    LET pre == ScopePrefix(start) IN
    /\ u.kind = "abs"
    /\ u.host = start.host
    /\ Len(u.segs) >= Len(pre)
    /\ \A i \in DOMAIN pre : u.segs[i] = pre[i]
    /\ (Len(u.segs) > Len(pre) \/ u.slash)

\* the links of the page being processed, as the crawl reads them
LinkTargets ==
    { StripFragment(urljoin(current_url, Page(current_url).anchors[i].href)) :
        i \in DOMAIN Page(current_url).anchors }

\* C14: every URL the crawl adds to the frontier (and so every page it fetches
\* other than the start URL itself) is in scope of the start URL, and a link
\* is kept out of the frontier for scope reasons only if it is out of scope: an
\* in-scope link that is not visited is in the frontier after the page's links
\* have been followed unless the frontier is full.
C14_FrontierInScope ==
    /\ [](pc \in {"loop", "goto", "tour", "redirect"} =>
            /\ \A u \in Range(pages_to_crawl) \cup Range(fetch_log) :
                 u # website_url => InScope(website_url, u)
            /\ \A u \in visited_urls : u # website_url => InScope(website_url, u))
    /\ [][ FollowLinks =>
             /\ \A u \in Range(pages_to_crawl') \ Range(pages_to_crawl) :
                  u \in LinkTargets /\ InScope(website_url, u)
             /\ \A u \in LinkTargets :
                  (InScope(website_url, u) /\ u \notin visited_urls
                     /\ u \notin Range(pages_to_crawl'))
                    => Len(pages_to_crawl') >= max_pages
         ]_vars

\* from the start URL written without its trailing slash, the first page's
\* links to other.com, to /dallas/ and to /rooms were left out and the link to
\* /austin/amenities was followed
C14_Witness ==
    /\ website_url = P0NoSlash
    /\ fetch_log = <<P0NoSlash, P1>>
    /\ pc = "tour"
    /\ max_pages = 3

\* C15: a button whose text is a tour phrase and that has no href yields a
\* result with status EMBEDDED for its page (and no navigation): when the
\* processing of a page that carries such a button is over, the log holds an
\* EMBEDDED result found on that page.
C15_ButtonIsEmbedded ==
    [][ (FollowLinks /\ Page(current_url).buttons = 1) =>
           \E i \in DOMAIN results :
              /\ results[i].page_url = current_url
              /\ results[i].status = "EMBEDDED"
      ]_vars

\* C16: with max_pages = 0 nothing is dequeued or fetched, the result log and
\* the manual-review list stay empty, the crawl goes from the loop head
\* straight to its return, finalize completes, and nothing is raised except by
\* a browser session that cannot be started.
C16_ZeroBudget ==
    /\ [](max_pages = 0 =>
            /\ pc \notin {"goto", "tour", "redirect"}
            /\ fetch_log = <<>>
            /\ visited_urls = {}
            /\ results = <<>>
            /\ manual_review_sites = <<>>)
    /\ [][ max_pages = 0 =>
             /\ pc = "loop" =>
                  /\ pc' \in {"save", "b_url"}
                  /\ pages_to_crawl' = pages_to_crawl
             /\ pc = "save" => pc' = "done"
             /\ pc' = "raised" => (pc = "crawl_init" /\ faults' = faults + 1)
         ]_vars

\* a run with max_pages = 0 is done: the browser was started and closed, the
\* start URL is still in the frontier
C16_Witness ==
    /\ max_pages = 0
    /\ pc = "done"
    /\ mode = "single"
    /\ session["page"] = "closed"
    /\ pages_to_crawl = <<website_url>>

\* C17: during a crawl the frontier holds no URL twice and no visited URL, and
\* a dequeue never takes the skip-if-visited branch.
C17_FrontierFresh ==
    /\ [](pc \in {"loop", "goto", "tour", "redirect"} =>
            /\ \A i, j \in DOMAIN pages_to_crawl :
                 i # j => pages_to_crawl[i] # pages_to_crawl[j]
            /\ Range(pages_to_crawl) \cap visited_urls = {})
    /\ [][ Dequeue => (pc' = "goto" /\ current_url' \notin visited_urls) ]_vars

\* page 2 linked to the visited start page and to a URL that was already in
\* the frontier: neither was enqueued
C17_Witness ==
    /\ mode = "single"
    /\ max_pages = 3
    /\ pc = "loop"
    /\ fetch_log = <<P0, P1>>
    /\ visited_urls = {P0, P1}
    /\ pages_to_crawl = <<P2>>

\* C18: during a crawl with max_pages >= 1 the visited URLs and the frontier
\* together never number more than max_pages.
C18_DistinctPagesWithinBudget ==
    (pc \in {"loop", "goto", "tour", "redirect"} /\ max_pages >= 1) =>
        Cardinality(visited_urls) + Len(pages_to_crawl) <= max_pages

\* C19: first match wins: a final URL matching the media-asset rule is GOOD,
\* also when it contains the all-assets landing segment without an asset
\* parameter.
C19_MediaRuleFirst ==
    pc = "cat_done" => (MediaAssetRule(probe.arg) => probe.ret = "GOOD")

\* C20: no result is recorded whose original URL is a '#' href or a
\* 'javascript:' href, whichever strategy looked at the element.
C20_NoPseudoHrefCandidate ==
    \A i \in DOMAIN results : results[i].original_url.kind \notin {"hash", "js"}

\* C21: hrefs are resolved to absolute, fragment-stripped URLs before they are
\* deduplicated: every recorded original URL that is not a '#' or
\* 'javascript:' href is absolute and without fragment, and no two results
\* found on the same page of one crawl are for hrefs that resolve to the same
\* URL.
C21_ResolvedBeforeDedup ==
    mode = "single" =>
        \A i, j \in DOMAIN results :
            /\ results[i].original_url.kind \notin {"hash", "js"} =>
                  /\ results[i].original_url.kind = "abs"
                  /\ results[i].original_url.frag = ""
            /\ ( /\ i # j
                 /\ results[i].page_url = results[j].page_url
                 /\ results[i].original_url.kind \notin {"hash", "js"}
                 /\ results[j].original_url.kind \notin {"hash", "js"} ) =>
                  StripFragment(urljoin(results[i].page_url, results[i].original_url))
                    # StripFragment(urljoin(results[j].page_url, results[j].original_url))

\* C22: Visited shrinks only when the batch loop takes up the first URL of a
\* property: it is not reset between the start URLs of one property row.
C22_VisitedKeptWithinProperty ==
    [][ ~(visited_urls \subseteq visited_urls') =>
           (pc = "b_url" /\ urls = rows[row_i].urls)
      ]_vars

\* the properties the batch loop is through with (rows without URLs are
\* skipped and are no property)
CompletedProperties ==
    Cardinality({ j \in 1..(row_i - 1) : j <= Len(rows) /\ rows[j].urls # <<>> })

\* C23: in batch mode the run totals never decrease, and whenever the batch
\* loop is between properties (or past the last one) the good, bad and error
\* totals are the numbers of GOOD, BAD REDIRECT and ERROR entries of the result
\* log and properties-processed is the number of completed properties.
C23_TotalsMatchLog ==
    /\ []((mode = "batch" /\ pc \in {"b_row", "save", "done"}) =>
            /\ totals.good =
                 Cardinality({ i \in DOMAIN results : results[i].status = "GOOD" })
            /\ totals.bad =
                 Cardinality({ i \in DOMAIN results : results[i].status = "BAD REDIRECT" })
            /\ totals.errors =
                 Cardinality({ i \in DOMAIN results : results[i].status = "ERROR" })
            /\ totals.properties = CompletedProperties)
    /\ [][ /\ totals'.properties >= totals.properties
           /\ totals'.good >= totals.good
           /\ totals'.bad >= totals.bad
           /\ totals'.errors >= totals.errors
         ]_vars

\* two properties are completed (a row without URLs between them was
\* skipped), with results of each status counted
C23_Witness ==
    /\ mode = "batch"
    /\ pc = "b_row"
    /\ row_i = 4
    /\ totals.properties = 2
    /\ totals.good >= 1
    /\ totals.bad >= 1
    /\ totals.errors >= 1

\* C26: the result log and the manual-review list are append-only for the
\* whole run: every step leaves each of them a prefix of what it is afterwards.
C26_LogsAppendOnly ==
    [][ /\ IsPrefix(results, results')
        /\ IsPrefix(manual_review_sites, manual_review_sites')
      ]_vars

\* a batch run is done that recorded results for two properties and a blocked
\* page, flushed increments, and had a sink call fail
C26_Witness ==
    /\ mode = "batch"
    /\ pc = "done"
    /\ worksheet
    /\ faults >= 1
    /\ manual_review_sites # <<>>
    /\ \E i, j \in DOMAIN results :
         /\ i < j
         /\ results[i].website_name = "Dallas"
         /\ results[j].website_name = "Austin"

\* C25: a resolution that fails appends exactly one result, for that
\* candidate, with status ERROR, an empty final URL and the error detail; the
\* remaining candidates of the page, the frontier and the browser session are
\* left as they were and the extraction goes on; every result whose status is
\* not ERROR has an empty error detail.
C25_FailedResolutionRecorded ==
    /\ [][ CheckRedirect =>
             /\ Len(results') = Len(results) + 1
             /\ IsPrefix(results, results')
             /\ Last(results').original_url = Head(cands).url
             /\ cands' = Tail(cands)
             /\ pc' = "tour"
             /\ pages_to_crawl' = pages_to_crawl
             /\ session' = session
             /\ (faults' # faults \/ Head(cands).url.kind # "abs") =>
                  /\ Last(results').status = "ERROR"
                  /\ Last(results').redirects_to = Empty
                  /\ Last(results').error_details # ""
         ]_vars
    /\ [](\A i \in DOMAIN results :
            results[i].status # "ERROR" => results[i].error_details = "")

\* on page 2 the resolution of the iframe's URL failed, the next candidate of
\* the page was resolved, and the crawl went on to page 3
C25_Witness ==
    /\ fetch_log = <<P0, P1, P2>>
    /\ \E i, j \in DOMAIN results :
         /\ i < j
         /\ results[i].page_url = P1
         /\ results[i].original_url = T1
         /\ results[i].status = "ERROR"
         /\ results[j].page_url = P1
         /\ results[j].status = "GOOD"

\* C27: pages are fetched in FIFO order: the start URL is fetched first, every
\* fetch is of the URL dequeued last, a dequeue takes the URL that has been in
\* the frontier longest, and the URLs that stay in the frontier keep their
\* order with new ones added behind them.
C27_FetchedInFifoOrder ==
    /\ [](fetch_log # <<>> => fetch_log[1] = website_url)
    /\ [][ (pc \in {"loop", "goto", "tour", "redirect"}) =>
             /\ fetch_log' # fetch_log => fetch_log' = Append(fetch_log, current_url)
             /\ \/ IsPrefix(pages_to_crawl, pages_to_crawl')
                \/ /\ pages_to_crawl # <<>>
                   /\ current_url' = pages_to_crawl[1]
                   /\ pages_to_crawl' = Tail(pages_to_crawl)
         ]_vars

\* with two URLs waiting, the one enqueued first was fetched first
C27_Witness ==
    /\ website_url = P0Index
    /\ max_pages = 3
    /\ fetch_log = <<P0Index, P1, P2>>

\* C28: the page _check_redirect opens is closed before it returns, whether
\* the navigation worked or failed: at most one redirect page is ever open, and
\* none is open outside _check_redirect, so none when a page is fetched.
C28_RedirectPageClosed ==
    /\ [](redirect_pages <= 1 /\ (pc # "redirect" => redirect_pages = 0))
    /\ [][ CheckRedirect => redirect_pages' = 0 ]_vars

\* a navigation failed, a later one worked, and the crawl is fetching its next
\* page
C28_Witness ==
    /\ pc = "goto"
    /\ redirect_pages = 0
    /\ \E i, j \in DOMAIN results :
         /\ i < j
         /\ results[i].status = "ERROR"
         /\ results[i].original_url.kind = "abs"
         /\ results[j].status # "ERROR"

\* C24: the crawl loop terminates (crawl_website returns, or raised before the
\* loop when the browser could not be started), and when the loop ends the
\* frontier is empty or exactly max_pages pages have been fetched.
C24_CrawlTerminates ==
    /\ <>(pc \in {"save", "raised"})
    /\ [](pc = "loop" => <>(pc = "save"))
    /\ [][ CrawlReturns =>
             \/ pages_to_crawl = <<>>
             \/ (Len(fetch_log) = max_pages /\ pages_crawled = max_pages)
         ]_vars

\* the loop ended on the budget with a URL still in the frontier
C24_Witness ==
    /\ pc = "save"
    /\ max_pages = 2
    /\ Len(fetch_log) = 2
    /\ pages_to_crawl # <<>>

====
